---- MODULE Spec2Model ----
(***************************************************************************)
(* Model of two utilities of the repository:                               *)
(*   - electron/main/scripts/extract-icon.py: extract_icon() and the       *)
(*     command-line wrapper under `if __name__ == '__main__'`;             *)
(*   - api/models/feature_flags.py: construction of the pydantic models    *)
(*     FeatureFlagsRolloutInfo and FeatureFlagsResponse.                   *)
(* Spec      is the state machine of one run of extract-icon.py.           *)
(* SpecFlags is the construction of the feature-flags models from a        *)
(*           payload in which any field may be present or missing.         *)
(***************************************************************************)
EXTENDS Integers, Sequences, FiniteSets

VARIABLES
    argv,       \* sys.argv: <<script, app_path, output_path, size token, ...>>
    env,        \* the platform and the disk the run starts on (never changes)
    pc,         \* position of the run in the script
    size,       \* the local `size` of the wrapper / the parameter of extract_icon
    icon,       \* the local `icon` of extract_icon
    png_data,   \* the local `png_data` of extract_icon
    fs,         \* the files at the output paths
    handle,     \* the file object `f` of the with statement
    exc,        \* the exception in flight inside extract_icon's try
    ret,        \* the value extract_icon returned
    calls,      \* how many times extract_icon was invoked
    stdout,     \* lines printed to sys.stdout
    stderr,     \* lines printed to sys.stderr
    exit_status,\* the status the process ended with
    payload,    \* keyword arguments given to FeatureFlagsResponse(...)
    built       \* outcome of constructing the feature-flags models

vars == <<argv, env, pc, size, icon, png_data, fs, handle, exc, ret, calls,
          stdout, stderr, exit_status, payload, built>>

iconVars  == <<argv, env, pc, size, icon, png_data, fs, handle, exc, ret,
               calls, stdout, stderr, exit_status>>
flagsVars == <<payload, built>>

-----------------------------------------------------------------------------
(* Bounds of the model *)

\* longest size token on the command line, in characters
MaxTokLen == 2
\* most trailing command-line arguments after the size token
MaxExtraArgs == 1

-----------------------------------------------------------------------------
(* Inputs *)

Script   == "extract-icon.py"
AppPaths == {"/Applications/Safari.app", "/nonexistent"}
OutPaths == {"/tmp/icon.png", "/tmp/other.png"}

\* characters a size token is made of: two digits, a sign, a letter
Chars  == {"4", "6", "-", "x"}
Digits == {"4", "6"}

RECURSIVE TokensOfLen(_)
TokensOfLen(n) ==
    IF n = 0 THEN {<<>>}
    ELSE {Append(t, c) : t \in TokensOfLen(n - 1), c \in Chars}

Tokens == UNION {TokensOfLen(n) : n \in 0..MaxTokLen}

\* steps of extract_icon at which the platform or the disk can raise
FaultSteps == {"import", "resolve", "resize", "encode", "open", "write"}

NoFile   == [exists |-> FALSE, data |-> <<>>]
OldFile  == [exists |-> TRUE,  data |-> <<<<"OLD", 0, 0>>>>]

Envs ==
    [appkit : BOOLEAN,                        \* `from AppKit import ...` loads
     icons  : SUBSET AppPaths,                \* paths iconForFile_ resolves
     fault  : FaultSteps \cup {"none"},       \* the step that raises, if any
     disk   : [OutPaths -> {NoFile, OldFile}]]\* the files before the run

-----------------------------------------------------------------------------
(* int(sys.argv[3]) *)

DigitVal(c) == IF c = "4" THEN 4 ELSE 6

\* the digits of a token once a leading minus sign is dropped
Magnitude(tok) ==
    IF Len(tok) > 0 /\ Head(tok) = "-" THEN Tail(tok) ELSE tok

\* int() accepts an optional sign followed by at least one digit
IsIntLiteral(tok) ==
    /\ Len(Magnitude(tok)) > 0
    /\ \A i \in 1..Len(Magnitude(tok)) : Magnitude(tok)[i] \in Digits

RECURSIVE DigitsValue(_)
DigitsValue(ds) ==
    IF Len(ds) = 0 THEN 0
    ELSE 10 * DigitsValue(SubSeq(ds, 1, Len(ds) - 1)) + DigitVal(ds[Len(ds)])

ParseInt(tok) ==
    IF Len(tok) > 0 /\ Head(tok) = "-"
    THEN 0 - DigitsValue(Magnitude(tok))
    ELSE DigitsValue(Magnitude(tok))

\* the default of the `size` parameter and of the wrapper's `size`
DefaultSize == 64

-----------------------------------------------------------------------------
(* The icon and its PNG encoding *)

Nil == [of |-> "", w |-> 0, h |-> 0]

\* workspace.iconForFile_(app_path)
IconForFile(path) ==
    IF path \in env.icons THEN [of |-> path, w |-> 0, h |-> 0] ELSE Nil

\* variant of SetSize: only the width is set
SetSizeWidthOnly(img, s) == [img EXCEPT !.w = s]

\* icon.setSize_((size, size))
SetSize(img, s) == [img EXCEPT !.w = s, !.h = s]

\* TIFFRepresentation / imageRepWithData_ / representationUsingType_(PNG):
\* the PNG byte stream of the image, as its chunks <<type, width, height>>
PngEncode(img) ==
    << <<"SIG", 0, 0>>, <<"IHDR", img.w, img.h>>,
       <<"IDAT", img.w, img.h>>, <<"IEND", 0, 0>> >>

\* the first k chunks of a byte stream
Prefix(data, k) == SubSeq(data, 1, k)

UsageLine     == "Usage: extract-icon.py <app_path> <output_path> [size]"
ErrorLine     == "Error: <exception message>"
TracebackLine == "Traceback: ValueError: invalid literal for int()"

-----------------------------------------------------------------------------
(* One run of extract-icon.py *)

app_path    == argv[2]
output_path == argv[3]

Argvs ==
    {<<Script>>} \cup
    {<<Script, a>> : a \in AppPaths} \cup
    {<<Script, a, o>> : a \in AppPaths, o \in OutPaths} \cup
    UNION {{<<Script, a, o, t>> \o [i \in 1..n |-> "extra"] :
              a \in AppPaths, o \in OutPaths, t \in Tokens} :
           n \in 0..MaxExtraArgs}

\* no model constructed yet
NotBuilt ==
    [status |-> "none", errors |-> {}, flags |-> <<>>, user_id |-> "",
     rollout_info |-> <<>>]

FlagsIdle ==
    /\ payload = <<>>
    /\ built = NotBuilt

Init ==
    /\ argv \in Argvs
    /\ env \in Envs
    /\ pc = "main"
    /\ size = DefaultSize
    /\ icon = Nil
    /\ png_data = <<>>
    /\ fs = env.disk
    /\ handle = [state |-> "none", path |-> "", pos |-> 0]
    /\ exc = "none"
    /\ ret = "none"
    /\ calls = 0
    /\ stdout = <<>>
    /\ stderr = <<>>
    /\ exit_status = -1
    /\ FlagsIdle

\* an exception raised at a step inside the try block
Raise(kind) ==
    /\ exc' = kind
    /\ pc' = "except"


\* variant of MainUsage: the usage line goes to stdout
MainUsageToStdout ==
    /\ pc = "main"
    /\ Len(argv) < 3
    /\ stdout' = Append(stdout, UsageLine)
    /\ exit_status' = 1
    /\ pc' = "exited"
    /\ UNCHANGED <<argv, env, size, icon, png_data, fs, handle, exc, ret,
                   calls, stderr, payload, built>>

\* lines 41-43: too few arguments
MainUsage ==
    /\ pc = "main"
    /\ Len(argv) < 3
    /\ stderr' = Append(stderr, UsageLine)
    /\ exit_status' = 1
    /\ pc' = "exited"
    /\ UNCHANGED <<argv, env, size, icon, png_data, fs, handle, exc, ret,
                   calls, stdout, payload, built>>

\* variant of MainArgs: the size is parsed under extract_icon's handlers
MainArgsParseInsideTry ==
    /\ pc = "main"
    /\ ~(Len(argv) < 3)
    /\ calls' = calls + 1
    /\ IF Len(argv) > 3 /\ ~IsIntLiteral(argv[4])
       THEN Raise("Exception") /\ UNCHANGED size
       ELSE /\ size' = IF Len(argv) > 3 THEN ParseInt(argv[4]) ELSE DefaultSize
            /\ pc' = "import"
            /\ UNCHANGED exc
    /\ UNCHANGED <<argv, env, icon, png_data, fs, handle, ret,
                   stdout, stderr, exit_status, payload, built>>

\* lines 45-49: read the arguments, parse the size, invoke extract_icon;
\* a ValueError of int() is not caught: traceback on stderr, status 1
MainArgs ==
    /\ pc = "main"
    /\ ~(Len(argv) < 3)
    /\ IF Len(argv) > 3 /\ ~IsIntLiteral(argv[4])
       THEN /\ stderr' = Append(stderr, TracebackLine)
            /\ exit_status' = 1
            /\ pc' = "exited"
            /\ UNCHANGED <<size, calls>>
       ELSE /\ size' = IF Len(argv) > 3 THEN ParseInt(argv[4]) ELSE DefaultSize
            /\ calls' = calls + 1
            /\ pc' = "import"
            /\ UNCHANGED <<stderr, exit_status>>
    /\ UNCHANGED <<argv, env, icon, png_data, fs, handle, exc, ret,
                   stdout, payload, built>>

\* line 15: from AppKit import ...
Import ==
    /\ pc = "import"
    /\ IF ~env.appkit THEN Raise("ImportError")
       ELSE IF env.fault = "import" THEN Raise("Exception")
       ELSE pc' = "resolve" /\ UNCHANGED exc
    /\ UNCHANGED <<argv, env, size, icon, png_data, fs, handle, ret, calls,
                   stdout, stderr, exit_status, payload, built>>

\* variant of Resolve: the `if not icon` test is missing
ResolveNoNilCheck ==
    /\ pc = "resolve"
    /\ IF env.fault = "resolve"
       THEN Raise("Exception") /\ UNCHANGED icon
       ELSE icon' = IconForFile(app_path) /\ pc' = "resize" /\ UNCHANGED exc
    /\ UNCHANGED <<argv, env, size, png_data, fs, handle, ret, calls,
                   stdout, stderr, exit_status, payload, built>>

\* lines 17-21: look the icon up; return False when there is none
Resolve ==
    /\ pc = "resolve"
    /\ IF env.fault = "resolve"
       THEN Raise("Exception") /\ UNCHANGED <<icon, ret>>
       ELSE /\ icon' = IconForFile(app_path)
            /\ IF icon' = Nil
               THEN ret' = "False" /\ pc' = "returned"
               ELSE pc' = "resize" /\ UNCHANGED ret
            /\ UNCHANGED exc
    /\ UNCHANGED <<argv, env, size, png_data, fs, handle, calls,
                   stdout, stderr, exit_status, payload, built>>

\* line 24: icon.setSize_((size, size))
Resize ==
    /\ pc = "resize"
    /\ IF env.fault = "resize"
       THEN Raise("Exception") /\ UNCHANGED icon
       ELSE icon' = SetSize(icon, size) /\ pc' = "encode" /\ UNCHANGED exc
    /\ UNCHANGED <<argv, env, size, png_data, fs, handle, ret, calls,
                   stdout, stderr, exit_status, payload, built>>

\* lines 25-27: TIFF representation, bitmap rep, PNG bytes
Encode ==
    /\ pc = "encode"
    /\ IF env.fault = "encode"
       THEN Raise("Exception") /\ UNCHANGED png_data
       ELSE png_data' = PngEncode(icon) /\ pc' = "open" /\ UNCHANGED exc
    /\ UNCHANGED <<argv, env, size, icon, fs, handle, ret, calls,
                   stdout, stderr, exit_status, payload, built>>

\* line 29: open(output_path, 'wb') creates the file or truncates it
Open ==
    /\ pc = "open"
    /\ IF env.fault = "open"
       THEN Raise("Exception") /\ UNCHANGED <<fs, handle>>
       ELSE /\ fs' = [fs EXCEPT ![output_path] = [exists |-> TRUE, data |-> <<>>]]
            /\ handle' = [state |-> "open", path |-> output_path, pos |-> 0]
            /\ pc' = "write"
            /\ UNCHANGED exc
    /\ UNCHANGED <<argv, env, size, icon, png_data, ret, calls,
                   stdout, stderr, exit_status, payload, built>>

\* line 30: f.write(png_data); a failing write leaves the bytes that got out
Write ==
    /\ pc = "write"
    /\ IF env.fault = "write"
       THEN \E k \in 0..(Len(png_data) - 1) :
              /\ fs' = [fs EXCEPT ![handle.path].data = Prefix(png_data, k)]
              /\ handle' = [handle EXCEPT !.pos = k]
              /\ exc' = "Exception"
       ELSE /\ fs' = [fs EXCEPT ![handle.path].data = png_data]
            /\ handle' = [handle EXCEPT !.pos = Len(png_data)]
            /\ UNCHANGED exc
    /\ pc' = "with_exit"
    /\ UNCHANGED <<argv, env, size, icon, png_data, ret, calls,
                   stdout, stderr, exit_status, payload, built>>

\* variant of WithExit: f is closed only when the block ends normally
WithExitLeak ==
    /\ pc = "with_exit"
    /\ handle' = IF exc = "none" THEN [handle EXCEPT !.state = "closed"]
                 ELSE handle
    /\ pc' = IF exc = "none" THEN "return_true" ELSE "except"
    /\ UNCHANGED <<argv, env, size, icon, png_data, fs, exc, ret, calls,
                   stdout, stderr, exit_status, payload, built>>

\* line 29: leaving the with block closes f, with or without an exception
WithExit ==
    /\ pc = "with_exit"
    /\ handle' = [handle EXCEPT !.state = "closed"]
    /\ pc' = IF exc = "none" THEN "return_true" ELSE "except"
    /\ UNCHANGED <<argv, env, size, icon, png_data, fs, exc, ret, calls,
                   stdout, stderr, exit_status, payload, built>>

\* line 32: return True
ReturnTrue ==
    /\ pc = "return_true"
    /\ ret' = "True"
    /\ pc' = "returned"
    /\ UNCHANGED <<argv, env, size, icon, png_data, fs, handle, exc, calls,
                   stdout, stderr, exit_status, payload, built>>

\* variant of ExceptImportError: the handler prints a diagnostic
ExceptImportErrorLoud ==
    /\ pc = "except"
    /\ exc = "ImportError"
    /\ stderr' = Append(stderr, ErrorLine)
    /\ ret' = "False"
    /\ pc' = "returned"
    /\ UNCHANGED <<argv, env, size, icon, png_data, fs, handle, exc, calls,
                   stdout, exit_status, payload, built>>

\* lines 33-35: except ImportError: return False, silently
ExceptImportError ==
    /\ pc = "except"
    /\ exc = "ImportError"
    /\ ret' = "False"
    /\ pc' = "returned"
    /\ UNCHANGED <<argv, env, size, icon, png_data, fs, handle, exc, calls,
                   stdout, stderr, exit_status, payload, built>>

\* variant of ExceptException: the exception leaves extract_icon uncaught
ExceptExceptionPropagates ==
    /\ pc = "except"
    /\ exc = "Exception"
    /\ stderr' = Append(stderr, TracebackLine)
    /\ exit_status' = 1
    /\ pc' = "exited"
    /\ UNCHANGED <<argv, env, size, icon, png_data, fs, handle, exc, ret,
                   calls, stdout, payload, built>>

\* lines 36-38: except Exception: print the message to stderr, return False
ExceptException ==
    /\ pc = "except"
    /\ exc = "Exception"
    /\ stderr' = Append(stderr, ErrorLine)
    /\ ret' = "False"
    /\ pc' = "returned"
    /\ UNCHANGED <<argv, env, size, icon, png_data, fs, handle, exc, calls,
                   stdout, exit_status, payload, built>>

\* variant of MainExit: the failure branch exits with status 0
MainExitAlwaysZero ==
    /\ pc = "returned"
    /\ IF ret = "True"
       THEN stdout' = Append(stdout, "OK") /\ exit_status' = 0
       ELSE exit_status' = 0 /\ UNCHANGED stdout
    /\ pc' = "exited"
    /\ UNCHANGED <<argv, env, size, icon, png_data, fs, handle, exc, ret,
                   calls, stderr, payload, built>>

\* lines 49-53: print OK and exit 0 on True, exit 1 on False
MainExit ==
    /\ pc = "returned"
    /\ IF ret = "True"
       THEN stdout' = Append(stdout, "OK") /\ exit_status' = 0
       ELSE exit_status' = 1 /\ UNCHANGED stdout
    /\ pc' = "exited"
    /\ UNCHANGED <<argv, env, size, icon, png_data, fs, handle, exc, ret,
                   calls, stderr, payload, built>>

Next ==
    \/ MainUsage
    \/ MainArgs
    \/ Import
    \/ Resolve
    \/ Resize
    \/ Encode
    \/ Open
    \/ Write
    \/ WithExit
    \/ ReturnTrue
    \/ ExceptImportError
    \/ ExceptException
    \/ MainExit

Spec == Init /\ [][Next]_vars

-----------------------------------------------------------------------------
(* Construction of the feature-flags models *)

\* an optional keyword argument: <<>> when not given, <<v>> when given as v
Opt(S) == {<<>>} \cup {<<v>> : v \in S}

Given(o) == Len(o) = 1

\* Python's None
None == "None"

UserIds   == {"desktop-user"}
FlagNames == {"websocket_execution", "hmac_security"}
FlagMaps  == [FlagNames -> BOOLEAN]

\* FeatureFlagsRolloutInfo: the four fields, each declared with Field(...)
RolloutFields ==
    {"websocket_enabled", "evidence_validation_enabled",
     "billing_enabled", "hmac_enabled"}

\* variant of RolloutInfoRequired: hmac_enabled has a default
RolloutInfoRequiredNoHmac == RolloutFields \ {"hmac_enabled"}

RolloutInfoRequired == RolloutFields

\* FeatureFlagsResponse: the fields declared with Field(...)
ResponseRequired == {"flags", "rollout_info"}

\* FeatureFlagsResponse.user_id: Field(default=None)
UserIdDefault == None

RolloutPayloads == [RolloutFields -> Opt(BOOLEAN)]

Payloads ==
    [flags        : Opt(FlagMaps),
     user_id      : Opt(UserIds),
     rollout_info : Opt(RolloutPayloads)]

\* the required fields of FeatureFlagsRolloutInfo the keywords leave out
RolloutMissing(kw) == {f \in RolloutInfoRequired : ~Given(kw[f])}

\* the required fields of FeatureFlagsResponse the keywords leave out
ResponseMissing(kw) == {f \in ResponseRequired : ~Given(kw[f])}

\* validation errors of FeatureFlagsResponse(**kw), as field locations
ResponseErrors(kw) ==
    {<<f>> : f \in ResponseMissing(kw)} \cup
    (IF Given(kw.rollout_info)
     THEN {<<"rollout_info", f>> : f \in RolloutMissing(kw.rollout_info[1])}
     ELSE {})

IconIdle ==
    /\ argv = <<Script>>
    /\ env = [appkit |-> FALSE, icons |-> {}, fault |-> "none",
              disk |-> [p \in OutPaths |-> NoFile]]
    /\ pc = "idle"
    /\ size = DefaultSize
    /\ icon = Nil
    /\ png_data = <<>>
    /\ fs = env.disk
    /\ handle = [state |-> "none", path |-> "", pos |-> 0]
    /\ exc = "none"
    /\ ret = "none"
    /\ calls = 0
    /\ stdout = <<>>
    /\ stderr = <<>>
    /\ exit_status = -1

InitFlags ==
    /\ IconIdle
    /\ payload \in Payloads
    /\ built = NotBuilt

\* FeatureFlagsRolloutInfo(**payload.rollout_info)
ConstructRolloutInfo ==
    /\ built.status = "none"
    /\ Given(payload.rollout_info)
    /\ LET missing == RolloutMissing(payload.rollout_info[1]) IN
       built' = [NotBuilt EXCEPT
                   !.status = IF missing = {} THEN "info_ok" ELSE "info_error",
                   !.errors = {<<f>> : f \in missing},
                   !.rollout_info = IF missing = {} THEN payload.rollout_info
                                    ELSE <<>>]
    /\ UNCHANGED <<payload, iconVars>>

\* FeatureFlagsResponse(**payload)
ConstructResponse ==
    /\ built.status = "none"
    /\ LET errors == ResponseErrors(payload) IN
       IF errors # {}
       THEN built' = [NotBuilt EXCEPT !.status = "error", !.errors = errors]
       ELSE built' = [status       |-> "ok",
                      errors       |-> {},
                      flags        |-> payload.flags,
                      user_id      |-> IF Given(payload.user_id)
                                       THEN payload.user_id[1]
                                       ELSE UserIdDefault,
                      rollout_info |-> payload.rollout_info]
    /\ UNCHANGED <<payload, iconVars>>

NextFlags ==
    \/ ConstructRolloutInfo
    \/ ConstructResponse

SpecFlags == InitFlags /\ [][NextFlags]_vars

-----------------------------------------------------------------------------
(* Properties *)

Returned == pc \in {"returned", "exited"} /\ calls > 0

\* the PNG bytes of this call are what open/write put into output_path
Written ==
    /\ handle.state # "none"
    /\ Len(png_data) > 0
    /\ handle.pos = Len(png_data)
    /\ fs[handle.path].data = png_data

\* C1: when AppKit loads, the icon is resolved and no step raises, the call
\* returns True and output_path holds a complete PNG whose header says
\* size x size; with the size argument omitted the size is 64.
C1_SuccessWritesPng ==
    (Returned /\ env.appkit /\ app_path \in env.icons /\ env.fault = "none")
    => /\ ret = "True"
       /\ fs[output_path].exists
       /\ Len(fs[output_path].data) = 4
       /\ fs[output_path].data[1] = <<"SIG", 0, 0>>
       /\ fs[output_path].data[2] = <<"IHDR", size, size>>
       /\ fs[output_path].data[3] = <<"IDAT", size, size>>
       /\ fs[output_path].data[4] = <<"IEND", 0, 0>>
       /\ (Len(argv) = 3 => size = 64)

C1_Witness ==
    /\ pc = "exited"
    /\ ret = "True"
    /\ Len(argv) = 3
    /\ fs[output_path].data[2] = <<"IHDR", 64, 64>>

\* C2: extract_icon always ends by returning a boolean, never by an exception
\* leaving the function; it returns True exactly when the PNG bytes were
\* written, and False when the icon is not resolved, AppKit does not load or
\* a step raises.
C2_AlwaysBoolean ==
    /\ (pc = "except" => exc \in {"ImportError", "Exception"})
    /\ (pc = "exited" /\ calls > 0 => ret \in {"True", "False"})
    /\ (Returned =>
          /\ ret \in {"True", "False"}
          /\ (ret = "True" <=> Written)
          /\ (ret = "False" <=>
                \/ ~env.appkit
                \/ app_path \notin env.icons
                \/ env.fault # "none"))

C2_Witness ==
    /\ pc = "exited"
    /\ ret = "False"
    /\ exc = "Exception"
    /\ env.fault = "encode"
    /\ exit_status = 1

\* C3: after a call that returned False, every output file is missing, or
\* holds what it held before the call, or holds the complete PNG.
C3_NoPartialOutput ==
    (Returned /\ ret = "False")
    => \A p \in OutPaths :
          \/ ~fs[p].exists
          \/ fs[p] = env.disk[p]
          \/ (Len(png_data) > 0 /\ fs[p].data = png_data)

\* C4: when the icon of app_path is not resolved, the call returns False and
\* the output files are as they were before the call.
C4_UnresolvedLeavesFiles ==
    (Returned /\ app_path \notin env.icons)
    => (ret = "False" /\ fs = env.disk /\ handle.state = "none")

C4_Witness ==
    /\ pc = "returned"
    /\ ret = "False"
    /\ exc = "none"
    /\ icon = Nil
    /\ env.appkit
    /\ env.disk[output_path] = OldFile
    /\ fs[output_path] = OldFile

\* C5: the error stream holds one diagnostic when the call failed through an
\* exception other than ImportError, and nothing otherwise; in particular
\* nothing when AppKit does not load and nothing when the call succeeds.
C5_DiagnosticOnlyOnException ==
    (pc = "returned")
    => /\ (stderr = <<ErrorLine>> <=> (ret = "False" /\ exc = "Exception"))
       /\ (stderr # <<ErrorLine>> => stderr = <<>>)
       /\ (~env.appkit => (ret = "False" /\ stderr = <<>>))
       /\ (ret = "True" => stderr = <<>>)

C5_Witness ==
    /\ pc = "returned"
    /\ ~env.appkit
    /\ exc = "ImportError"
    /\ ret = "False"
    /\ stderr = <<>>

\* C6: with two or more arguments, the process exits 0 exactly when
\* extract_icon returned True, having printed exactly OK; when extract_icon
\* returned False it exits 1 with nothing on stdout.
C6_ExitStatusFollowsResult ==
    (pc = "exited" /\ Len(argv) >= 3)
    => /\ (exit_status = 0 <=> ret = "True")
       /\ (ret = "True" => stdout = <<"OK">>)
       /\ (ret = "False" => (exit_status = 1 /\ stdout = <<>>))

C6_Witness ==
    /\ pc = "exited"
    /\ exit_status = 0
    /\ stdout = <<"OK">>
    /\ Len(argv) > 3

\* C7: with fewer than two arguments extract_icon is never invoked, stdout
\* stays empty, no output file is touched, and the process ends with status
\* 1 and the usage line on the error stream.
C7_UsageError ==
    (Len(argv) < 3)
    => /\ calls = 0
       /\ stdout = <<>>
       /\ fs = env.disk
       /\ handle.state = "none"
       /\ (pc = "exited" => (exit_status = 1 /\ stderr = <<UsageLine>>))

C7_Witness ==
    /\ pc = "exited"
    /\ Len(argv) = 2
    /\ exit_status = 1
    /\ stderr = <<UsageLine>>

\* C8: the file object is open only between open() and the end of the with
\* block; extract_icon never returns with it still open.
C8_HandleClosed ==
    /\ (handle.state = "open" => pc \in {"write", "with_exit"})
    /\ (Returned => handle.state # "open")

C8_Witness ==
    /\ pc = "returned"
    /\ ret = "False"
    /\ env.fault = "write"
    /\ handle.state = "closed"
    /\ handle.pos < Len(png_data)

\* C9: constructing the response is rejected whenever flags, rollout_info or
\* one of the four rollout booleans is missing, and accepted when they are
\* all present and user_id is omitted, user_id then being None.
C9_RequiredFields ==
    LET rolloutComplete(r) ==
            /\ Given(r["websocket_enabled"])
            /\ Given(r["evidence_validation_enabled"])
            /\ Given(r["billing_enabled"])
            /\ Given(r["hmac_enabled"])
        allPresent ==
            /\ Given(payload.flags)
            /\ Given(payload.rollout_info)
            /\ rolloutComplete(payload.rollout_info[1])
    IN /\ (built.status \in {"ok", "error"} /\ ~allPresent
             => built.status = "error")
       /\ (built.status \in {"ok", "error"} /\ allPresent
             /\ ~Given(payload.user_id)
             => (built.status = "ok" /\ built.user_id = None))
       /\ (built.status \in {"info_ok", "info_error"}
             => (built.status = "info_ok"
                   <=> rolloutComplete(payload.rollout_info[1])))

C9_Witness ==
    /\ built.status = "ok"
    /\ ~Given(payload.user_id)
    /\ built.user_id = None

\* C10: when the third argument is not an integer, extract_icon is never
\* invoked (so its handlers print nothing), the output files stay as they
\* were, OK is not printed, and the process ends with a non-zero status.
C10_BadSizeNeverCalls ==
    (Len(argv) > 3 /\ ~IsIntLiteral(argv[4]))
    => /\ calls = 0
       /\ ret = "none"
       /\ fs = env.disk
       /\ stdout = <<>>
       /\ stderr # <<ErrorLine>>
       /\ (pc = "exited" => exit_status > 0)

C10_Witness ==
    /\ pc = "exited"
    /\ Len(argv) > 3
    /\ argv[4] = <<"6", "x">>
    /\ calls = 0
    /\ exit_status = 1
====
